---- MODULE Spec2Model ----
(***************************************************************************)
(* State-machine model of crates/hring/src/util.rs:                        *)
(*   read_and_parse   - the incremental read/parse loop                    *)
(*   write_all_list   - the vectored write helper                          *)
(*   SemanticError    - the protocol-level error taxonomy                  *)
(* One connection is modelled: a caller that owns a receive buffer calls   *)
(* read_and_parse, may answer a parsed message with write_all_list, and    *)
(* calls read_and_parse again on the buffer it got back.                   *)
(***************************************************************************)
EXTENDS Integers, Sequences, FiniteSets, TLC

\* ------------------------------------------------------------------ bounds
\* longest byte sequence the peer sends before it closes the stream
MaxWire == 3
\* largest free capacity the buffer abstraction hands out
MaxCap == 2
\* largest max_len a caller passes
MaxMaxLen == 3
\* calls of read_and_parse on one connection
MaxCalls == 2
\* calls of write_all_list on one connection
MaxWrites == 1
\* fragments in an outgoing list
MaxPieces == 3
\* width of usize in the model (scaled down from 64 bits)
UsizeBits == 4

\* ------------------------------------------------------------ input domains
\* bytes on the wire: "d" is a data byte, "t" terminates a message,
\* "x" is a byte the line grammar rejects
Byte == {"d", "t", "x"}

RECURSIVE SeqsUpTo(_, _)
SeqsUpTo(S, n) ==
    IF n = 0 THEN {<<>>}
    ELSE LET shorter == SeqsUpTo(S, n - 1)
         IN  shorter \cup {Append(s, b) : s \in {t \in shorter : Len(t) = n - 1}, b \in S}

\* the grammars a caller injects
Grammars == {"line", "never", "reject"}

\* transport failures of the connection
IoErrors == {"ConnectionReset", "TimedOut"}

\* fragment lengths of outgoing lists
FragLens == {0, 5, 10}

PieceLists == SeqsUpTo(FragLens, MaxPieces)

UsizeModulus == 2 ^ UsizeBits

\* usize subtraction without overflow checks (release profile)
wrapping_sub(a, b) == (a - b) % UsizeModulus

\* ------------------------------------------------------------ the grammar
\* position of the first byte of s that is not a data byte, 0 if none
FirstMark(s) ==
    IF \E i \in 1..Len(s) : s[i] # "d"
    THEN CHOOSE i \in 1..Len(s) : s[i] # "d" /\ \A j \in 1..(i - 1) : s[j] = "d"
    ELSE 0

Incomplete == [tag |-> "Incomplete", rest |-> <<>>, output |-> <<>>]
Malformed == [tag |-> "Error", rest |-> <<>>, output |-> <<>>]

\* parser(filled): Ok((rest, output)), Err(Incomplete) or Err(Error)
Parser(g, s) ==
    CASE g = "never" -> Incomplete
      [] g = "reject" -> Malformed
      [] OTHER ->
            LET i == FirstMark(s)
            IN  IF i = 0 THEN Incomplete
                ELSE IF s[i] = "x" THEN Malformed
                ELSE [tag |-> "Ok",
                      rest |-> SubSeq(s, i + 1, Len(s)),
                      output |-> SubSeq(s, 1, i)]

\* ------------------------------------------------------- buffer abstraction
\* RollMut::keep(rest): the filled region becomes exactly rest
keep(b, rest) == rest

\* RollMut::grow(): the free capacities the growth policy may produce
grow(c) == (c + 1)..MaxCap

\* RollMut::read_into(limit, stream): the byte counts one read may append
ReadSizes(limit, c, w) ==
    LET m == IF limit < c THEN limit ELSE c
        k == IF m < Len(w) THEN m ELSE Len(w)
    IN  IF k = 0 THEN {0} ELSE 1..k

\* PieceList::len(): total byte length of the fragments
RECURSIVE PieceListLen(_)
PieceListLen(l) == IF l = <<>> THEN 0 ELSE Head(l) + PieceListLen(Tail(l))

\* PieceList::num_pieces()
num_pieces(l) == Len(l)

\* --------------------------------------------------------------- the state
VARIABLES
    pc,               \* position of the caller / of the running call
    callNo,           \* calls of read_and_parse made so far
    overflow_checks,  \* build profile: usize overflow panics (debug) or wraps
    wire,             \* bytes the peer has still to deliver
    parser,           \* grammar of the running call
    max_len,          \* max_len of the running call
    buf,              \* filled region of the buffer
    cap,              \* free capacity of the buffer
    read_limit,       \* local read_limit
    res,              \* result of the last read_into
    ret,              \* what read_and_parse returned
    total,            \* filled region at entry followed by the wire at entry
    len0,             \* filled length at entry
    nParse, nRead, nGrow,   \* parser / read_into / grow invocations of the call
    list,             \* fragment list passed to write_all_list
    len,              \* local len of write_all_list
    num_chunks,       \* local num_chunks of write_all_list
    wres,             \* result of writev
    wret,             \* what write_all_list returned
    nWritev,          \* writev invocations of the call
    nWrites,          \* calls of write_all_list made so far
    response          \* canned reply the caller took from as_http_response

rvars == <<parser, max_len, buf, cap, read_limit, res, ret, total, len0,
           nParse, nRead, nGrow>>
wvars == <<list, len, num_chunks, wres, wret, nWritev>>
vars == <<pc, callNo, overflow_checks, wire, rvars, wvars, nWrites, response>>

NoErr == [kind |-> "none", cause |-> "none"]
NoRes == [ok |-> TRUE, n |-> 0, err |-> "none", set |-> FALSE]
Pending == [tag |-> "Pending", hasBuf |-> FALSE, buf |-> <<>>, output |-> <<>>, err |-> NoErr]
WPending == [tag |-> "Pending", hasList |-> FALSE, list |-> <<>>, err |-> NoErr]

Init ==
    /\ pc = "idle"
    /\ callNo = 0
    /\ overflow_checks \in BOOLEAN
    /\ wire \in SeqsUpTo(Byte, MaxWire)
    /\ parser = "line"
    /\ max_len = 0
    /\ buf = <<>>
    /\ cap \in 0..MaxCap
    /\ read_limit = 0
    /\ res = NoRes
    /\ ret = Pending
    /\ total = <<>>
    /\ len0 = 0
    /\ nParse = 0 /\ nRead = 0 /\ nGrow = 0
    /\ list = <<>>
    /\ len = 0
    /\ num_chunks = 0
    /\ wres = NoRes
    /\ wret = WPending
    /\ nWritev = 0
    /\ nWrites = 0
    /\ response = <<>>

\* ----------------------------------------------------------- read_and_parse
\* the caller owns a buffer: a fresh one, or the one the last call returned
CallerHasBuf ==
    /\ pc \in {"idle", "returned", "wreturned"}
    /\ callNo = 0 \/ ret.tag = "Some"
    /\ pc = "wreturned" => wret.tag = "Ok"

\* read_and_parse as it would be if the loop read before it parsed
read_and_parse_ReadFirst ==
    /\ CallerHasBuf
    /\ callNo < MaxCalls
    /\ \E g \in Grammars, m \in 0..MaxMaxLen :
          /\ parser' = g
          /\ max_len' = m
    /\ buf' = IF callNo = 0 THEN buf ELSE ret.buf
    /\ total' = buf' \o wire
    /\ len0' = Len(buf')
    /\ callNo' = callNo + 1
    /\ read_limit' = 0
    /\ res' = NoRes
    /\ ret' = Pending
    /\ nParse' = 0 /\ nRead' = 0 /\ nGrow' = 0
    /\ list' = <<>> /\ len' = 0 /\ num_chunks' = 0
    /\ wres' = NoRes /\ wret' = WPending /\ nWritev' = 0
    /\ pc' = "limit"
    /\ UNCHANGED <<overflow_checks, wire, cap, nWrites, response>>

\* the caller moves its buffer into a new call
read_and_parse ==
    /\ CallerHasBuf
    /\ callNo < MaxCalls
    /\ \E g \in Grammars, m \in 0..MaxMaxLen :
          /\ parser' = g
          /\ max_len' = m
    /\ buf' = IF callNo = 0 THEN buf ELSE ret.buf
    /\ total' = buf' \o wire
    /\ len0' = Len(buf')
    /\ callNo' = callNo + 1
    /\ read_limit' = 0
    /\ res' = NoRes
    /\ ret' = Pending
    /\ nParse' = 0 /\ nRead' = 0 /\ nGrow' = 0
    /\ list' = <<>> /\ len' = 0 /\ num_chunks' = 0
    /\ wres' = NoRes /\ wret' = WPending /\ nWritev' = 0
    /\ pc' = "parse"
    /\ UNCHANGED <<overflow_checks, wire, cap, nWrites, response>>

Return(r) ==
    /\ ret' = r
    /\ pc' = "returned"

Err(kind, cause) ==
    [tag |-> "Err", hasBuf |-> FALSE, buf |-> <<>>, output |-> <<>>,
     err |-> [kind |-> kind, cause |-> cause]]

\* ParseOk as it would be without buf.keep(rest)
ParseOk_NoKeep ==
    /\ pc = "parse"
    /\ LET p == Parser(parser, buf)
       IN  /\ p.tag = "Ok"
           /\ buf' = buf
           /\ Return([tag |-> "Some", hasBuf |-> TRUE, buf |-> buf',
                      output |-> p.output, err |-> NoErr])
    /\ nParse' = nParse + 1
    /\ UNCHANGED <<callNo, overflow_checks, wire, parser, max_len, cap, read_limit,
                   res, total, len0, nRead, nGrow, wvars, nWrites, response>>

\* ParseOk as it would be if the limit were tested before the parse result
ParseOk_LimitFirst ==
    /\ pc = "parse"
    /\ LET p == Parser(parser, buf)
       IN  /\ p.tag = "Ok"
           /\ IF Len(buf) >= max_len
              THEN /\ buf' = buf
                   /\ Return(Err("BufferLimitReachedWhileParsing", "none"))
              ELSE /\ buf' = keep(buf, p.rest)
                   /\ Return([tag |-> "Some", hasBuf |-> TRUE, buf |-> buf',
                              output |-> p.output, err |-> NoErr])
    /\ nParse' = nParse + 1
    /\ UNCHANGED <<callNo, overflow_checks, wire, parser, max_len, cap, read_limit,
                   res, total, len0, nRead, nGrow, wvars, nWrites, response>>

\* Ok((rest, output)): trim the buffer to rest and return it with the output
ParseOk ==
    /\ pc = "parse"
    /\ LET p == Parser(parser, buf)
       IN  /\ p.tag = "Ok"
           /\ buf' = keep(buf, p.rest)
           /\ Return([tag |-> "Some", hasBuf |-> TRUE, buf |-> buf',
                      output |-> p.output, err |-> NoErr])
    /\ nParse' = nParse + 1
    /\ UNCHANGED <<callNo, overflow_checks, wire, parser, max_len, cap, read_limit,
                   res, total, len0, nRead, nGrow, wvars, nWrites, response>>

\* Err(err) with err.is_incomplete(): go on to the limit check
ParseIncomplete ==
    /\ pc = "parse"
    /\ Parser(parser, buf).tag = "Incomplete"
    /\ nParse' = nParse + 1
    /\ pc' = "limit"
    /\ UNCHANGED <<callNo, overflow_checks, wire, parser, max_len, buf, cap, read_limit,
                   res, ret, total, len0, nRead, nGrow, wvars, nWrites, response>>

\* ParseError as it would be if a malformed input were treated as incomplete
ParseError_Retry ==
    /\ pc = "parse"
    /\ Parser(parser, buf).tag = "Error"
    /\ nParse' = nParse + 1
    /\ pc' = "limit"
    /\ UNCHANGED <<callNo, overflow_checks, wire, parser, max_len, buf, cap, read_limit,
                   res, ret, total, len0, nRead, nGrow, wvars, nWrites, response>>

\* any other parser error ends the call
ParseError ==
    /\ pc = "parse"
    /\ Parser(parser, buf).tag = "Error"
    /\ nParse' = nParse + 1
    /\ Return(Err("ParsingError", "none"))
    /\ UNCHANGED <<callNo, overflow_checks, wire, parser, max_len, buf, cap, read_limit,
                   res, total, len0, nRead, nGrow, wvars, nWrites, response>>

Panic(msg) ==
    [tag |-> "Panic", hasBuf |-> FALSE, buf |-> <<>>, output |-> <<>>,
     err |-> [kind |-> "Panic", cause |-> msg]]

\* let read_limit = max_len - buf.len() in a build with overflow checks
ReadLimitOverflow ==
    /\ pc = "limit"
    /\ overflow_checks
    /\ max_len < Len(buf)
    /\ Return(Panic("attempt to subtract with overflow"))
    /\ UNCHANGED <<callNo, overflow_checks, wire, parser, max_len, buf, cap, read_limit,
                   res, total, len0, nParse, nRead, nGrow, wvars, nWrites, response>>

\* LimitCheck as it would be without the test against max_len
LimitCheck_NoCheck ==
    /\ pc = "limit"
    /\ ~(overflow_checks /\ max_len < Len(buf))
    /\ read_limit' = wrapping_sub(max_len, Len(buf))
    /\ pc' = "grow" /\ ret' = ret
    /\ UNCHANGED <<callNo, overflow_checks, wire, parser, max_len, buf, cap,
                   res, total, len0, nParse, nRead, nGrow, wvars, nWrites, response>>

\* LimitCheck as it would be with buf.len() > max_len
LimitCheck_Gt ==
    /\ pc = "limit"
    /\ ~(overflow_checks /\ max_len < Len(buf))
    /\ read_limit' = wrapping_sub(max_len, Len(buf))
    /\ IF Len(buf) > max_len
       THEN Return(Err("BufferLimitReachedWhileParsing", "none"))
       ELSE pc' = "grow" /\ ret' = ret
    /\ UNCHANGED <<callNo, overflow_checks, wire, parser, max_len, buf, cap,
                   res, total, len0, nParse, nRead, nGrow, wvars, nWrites, response>>

\* let read_limit = max_len - buf.len(); if buf.len() >= max_len { return Err }
LimitCheck ==
    /\ pc = "limit"
    /\ ~(overflow_checks /\ max_len < Len(buf))
    /\ read_limit' = wrapping_sub(max_len, Len(buf))
    /\ IF Len(buf) >= max_len
       THEN Return(Err("BufferLimitReachedWhileParsing", "none"))
       ELSE pc' = "grow" /\ ret' = ret
    /\ UNCHANGED <<callNo, overflow_checks, wire, parser, max_len, buf, cap,
                   res, total, len0, nParse, nRead, nGrow, wvars, nWrites, response>>

\* Grow as it would be without the call of buf.grow()
Grow_Skip ==
    /\ pc = "grow"
    /\ pc' = "read"
    /\ UNCHANGED <<callNo, overflow_checks, wire, parser, max_len, buf, cap, read_limit,
                   res, ret, total, len0, nParse, nRead, nGrow, wvars, nWrites, response>>

\* Grow as it would be if it grew whatever the free capacity is
Grow_Always ==
    /\ pc = "grow"
    /\ IF cap < MaxCap
       THEN /\ cap' \in grow(cap)
            /\ nGrow' = nGrow + 1
       ELSE UNCHANGED <<cap, nGrow>>
    /\ pc' = "read"
    /\ UNCHANGED <<callNo, overflow_checks, wire, parser, max_len, buf, read_limit,
                   res, ret, total, len0, nParse, nRead, wvars, nWrites, response>>

\* if buf.cap() == 0 { buf.grow() }
Grow ==
    /\ pc = "grow"
    /\ IF cap = 0
       THEN /\ cap' \in grow(cap)
            /\ nGrow' = nGrow + 1
       ELSE UNCHANGED <<cap, nGrow>>
    /\ pc' = "read"
    /\ UNCHANGED <<callNo, overflow_checks, wire, parser, max_len, buf, read_limit,
                   res, ret, total, len0, nParse, nRead, wvars, nWrites, response>>

\* ReadInto as it would be with max_len passed as the limit
ReadInto_MaxLen ==
    /\ pc = "read"
    /\ \/ \E n \in ReadSizes(max_len, cap, wire) :
             /\ buf' = buf \o SubSeq(wire, 1, n)
             /\ wire' = SubSeq(wire, n + 1, Len(wire))
             /\ cap' = cap - n
             /\ res' = [ok |-> TRUE, n |-> n, err |-> "none", set |-> TRUE]
       \/ \E e \in IoErrors :
             /\ res' = [ok |-> FALSE, n |-> 0, err |-> e, set |-> TRUE]
             /\ UNCHANGED <<buf, wire, cap>>
    /\ nRead' = nRead + 1
    /\ pc' = "readres"
    /\ UNCHANGED <<callNo, overflow_checks, parser, max_len, read_limit,
                   ret, total, len0, nParse, nGrow, wvars, nWrites, response>>

\* (res, buf) = buf.read_into(read_limit, stream).await
ReadInto ==
    /\ pc = "read"
    /\ \/ \E n \in ReadSizes(read_limit, cap, wire) :
             /\ buf' = buf \o SubSeq(wire, 1, n)
             /\ wire' = SubSeq(wire, n + 1, Len(wire))
             /\ cap' = cap - n
             /\ res' = [ok |-> TRUE, n |-> n, err |-> "none", set |-> TRUE]
       \/ \E e \in IoErrors :
             /\ res' = [ok |-> FALSE, n |-> 0, err |-> e, set |-> TRUE]
             /\ UNCHANGED <<buf, wire, cap>>
    /\ nRead' = nRead + 1
    /\ pc' = "readres"
    /\ UNCHANGED <<callNo, overflow_checks, parser, max_len, read_limit,
                   ret, total, len0, nParse, nGrow, wvars, nWrites, response>>

\* ReadResult as it would be if a failed read were retried
ReadResult_Retry ==
    /\ pc = "readres"
    /\ IF ~res.ok
       THEN pc' = "parse" /\ ret' = ret
       ELSE IF res.n = 0
            THEN IF buf # <<>>
                 THEN Return(Err("UnexpectedEof", "none"))
                 ELSE Return([tag |-> "None", hasBuf |-> FALSE, buf |-> <<>>,
                              output |-> <<>>, err |-> NoErr])
            ELSE pc' = "parse" /\ ret' = ret
    /\ UNCHANGED <<callNo, overflow_checks, wire, parser, max_len, buf, cap, read_limit,
                   res, total, len0, nParse, nRead, nGrow, wvars, nWrites, response>>

\* ReadResult as it would be if the buffer were handed back at end of stream
ReadResult_EofReturnsBuf ==
    /\ pc = "readres"
    /\ IF ~res.ok
       THEN Return(Err("Io", res.err))
       ELSE IF res.n = 0
            THEN IF buf # <<>>
                 THEN Return(Err("UnexpectedEof", "none"))
                 ELSE Return([tag |-> "None", hasBuf |-> TRUE, buf |-> buf,
                              output |-> <<>>, err |-> NoErr])
            ELSE pc' = "parse" /\ ret' = ret
    /\ UNCHANGED <<callNo, overflow_checks, wire, parser, max_len, buf, cap, read_limit,
                   res, total, len0, nParse, nRead, nGrow, wvars, nWrites, response>>

\* ReadResult as it would be if every zero-byte read were an unexpected EOF
ReadResult_EofIsError ==
    /\ pc = "readres"
    /\ IF ~res.ok
       THEN Return(Err("Io", res.err))
       ELSE IF res.n = 0
            THEN Return(Err("UnexpectedEof", "none"))
            ELSE pc' = "parse" /\ ret' = ret
    /\ UNCHANGED <<callNo, overflow_checks, wire, parser, max_len, buf, cap, read_limit,
                   res, total, len0, nParse, nRead, nGrow, wvars, nWrites, response>>

\* ReadResult as it would be with the emptiness test inverted
ReadResult_Inverted ==
    /\ pc = "readres"
    /\ IF ~res.ok
       THEN Return(Err("Io", res.err))
       ELSE IF res.n = 0
            THEN IF buf = <<>>
                 THEN Return(Err("UnexpectedEof", "none"))
                 ELSE Return([tag |-> "None", hasBuf |-> FALSE, buf |-> <<>>,
                              output |-> <<>>, err |-> NoErr])
            ELSE pc' = "parse" /\ ret' = ret
    /\ UNCHANGED <<callNo, overflow_checks, wire, parser, max_len, buf, cap, read_limit,
                   res, total, len0, nParse, nRead, nGrow, wvars, nWrites, response>>

\* let n = res.wrap_err(..)?; if n == 0 { .. } continue
ReadResult ==
    /\ pc = "readres"
    /\ IF ~res.ok
       THEN Return(Err("Io", res.err))
       ELSE IF res.n = 0
            THEN IF buf # <<>>
                 THEN Return(Err("UnexpectedEof", "none"))
                 ELSE Return([tag |-> "None", hasBuf |-> FALSE, buf |-> <<>>,
                              output |-> <<>>, err |-> NoErr])
            ELSE pc' = "parse" /\ ret' = ret
    /\ UNCHANGED <<callNo, overflow_checks, wire, parser, max_len, buf, cap, read_limit,
                   res, total, len0, nParse, nRead, nGrow, wvars, nWrites, response>>

\* ------------------------------------------------------------ SemanticError
\* enum SemanticError
SemanticError == {"BufferLimitReachedWhileParsing"}

\* as_http_response as it would be without the blank line that ends the head
as_http_response_NoBlankLine(e) ==
    CASE e = "BufferLimitReachedWhileParsing" ->
        <<72, 84, 84, 80, 47, 49, 46, 49, 32, 52, 51, 49, 32,
          82, 101, 113, 117, 101, 115, 116, 32,
          72, 101, 97, 100, 101, 114, 32,
          70, 105, 101, 108, 100, 115, 32,
          84, 111, 111, 32, 76, 97, 114, 103, 101, 13, 10>>

\* SemanticError::as_http_response: the bytes of
\* b"HTTP/1.1 431 Request Header Fields Too Large\r\n\r\n"
as_http_response(e) ==
    CASE e = "BufferLimitReachedWhileParsing" ->
        <<72, 84, 84, 80, 47, 49, 46, 49, 32, 52, 51, 49, 32,
          82, 101, 113, 117, 101, 115, 116, 32,
          72, 101, 97, 100, 101, 114, 32,
          70, 105, 101, 108, 100, 115, 32,
          84, 111, 111, 32, 76, 97, 114, 103, 101, 13, 10, 13, 10>>

\* the caller of a failed read_and_parse looks up the canned reply of a
\* semantic error
RespondToSemanticError ==
    /\ pc = "returned"
    /\ ret.tag = "Err"
    /\ ret.err.kind \in SemanticError
    /\ response = <<>>
    /\ response' = as_http_response(ret.err.kind)
    /\ UNCHANGED <<pc, callNo, overflow_checks, wire, rvars, wvars, nWrites>>

\* ----------------------------------------------------------- write_all_list
\* len and num_chunks are taken from the list before the write
write_all_list ==
    /\ pc \in {"idle", "returned"}
    /\ pc = "returned" => ret.tag = "Some"
    /\ nWrites < MaxWrites
    /\ list' \in PieceLists
    /\ len' = PieceListLen(list')
    /\ num_chunks' = num_pieces(list')
    /\ wres' = NoRes
    /\ wret' = WPending
    /\ nWritev' = 0
    /\ nWrites' = nWrites + 1
    /\ pc' = "writev"
    /\ UNCHANGED <<callNo, overflow_checks, wire, rvars, response>>

\* let (res, mut list) = stream.writev(list).await
Writev ==
    /\ pc = "writev"
    /\ \/ \E n \in 0..PieceListLen(list) :
             wres' = [ok |-> TRUE, n |-> n, err |-> "none", set |-> TRUE]
       \/ \E e \in IoErrors :
             wres' = [ok |-> FALSE, n |-> 0, err |-> e, set |-> TRUE]
    /\ nWritev' = nWritev + 1
    /\ pc' = "writeres"
    /\ UNCHANGED <<callNo, overflow_checks, wire, rvars, list, len, num_chunks, wret, nWrites, response>>

WReturn(r) ==
    /\ wret' = r
    /\ pc' = "wreturned"

\* WriteResult as it would be without the n < len test
WriteResult_ShortOk ==
    /\ pc = "writeres"
    /\ IF ~wres.ok
       THEN WReturn([tag |-> "Err", hasList |-> FALSE, list |-> <<>>,
                     err |-> [kind |-> "Io", cause |-> wres.err]])
       ELSE WReturn([tag |-> "Ok", hasList |-> TRUE, list |-> <<>>, err |-> NoErr])
    /\ UNCHANGED <<callNo, overflow_checks, wire, rvars, list, len, num_chunks, wres,
                   nWritev, nWrites, response>>

\* WriteResult as it would be without list.clear()
WriteResult_NoClear ==
    /\ pc = "writeres"
    /\ IF ~wres.ok
       THEN WReturn([tag |-> "Err", hasList |-> FALSE, list |-> <<>>,
                     err |-> [kind |-> "Io", cause |-> wres.err]])
       ELSE IF wres.n < len
            THEN WReturn([tag |-> "Panic", hasList |-> FALSE, list |-> <<>>,
                          err |-> [kind |-> "Panic", cause |-> "not implemented"]])
            ELSE WReturn([tag |-> "Ok", hasList |-> TRUE, list |-> list, err |-> NoErr])
    /\ UNCHANGED <<callNo, overflow_checks, wire, rvars, list, len, num_chunks, wres,
                   nWritev, nWrites, response>>

\* let n = res?; if n < len { unimplemented!() }; list.clear(); Ok(list.into())
WriteResult ==
    /\ pc = "writeres"
    /\ IF ~wres.ok
       THEN WReturn([tag |-> "Err", hasList |-> FALSE, list |-> <<>>,
                     err |-> [kind |-> "Io", cause |-> wres.err]])
       ELSE IF wres.n < len
            THEN WReturn([tag |-> "Panic", hasList |-> FALSE, list |-> <<>>,
                          err |-> [kind |-> "Panic", cause |-> "not implemented"]])
            ELSE WReturn([tag |-> "Ok", hasList |-> TRUE, list |-> <<>>, err |-> NoErr])
    /\ UNCHANGED <<callNo, overflow_checks, wire, rvars, list, len, num_chunks, wres,
                   nWritev, nWrites, response>>

\* a connection on which read_and_parse and write_all_list are both used
Next ==
    \/ read_and_parse
    \/ ParseOk
    \/ ParseIncomplete
    \/ ParseError
    \/ ReadLimitOverflow
    \/ LimitCheck
    \/ Grow
    \/ ReadInto
    \/ ReadResult
    \/ RespondToSemanticError
    \/ write_all_list
    \/ Writev
    \/ WriteResult

Spec == Init /\ [][Next]_vars

\* a connection on which only read_and_parse is called
ReadNext ==
    \/ read_and_parse
    \/ ParseOk
    \/ ParseIncomplete
    \/ ParseError
    \/ ReadLimitOverflow
    \/ LimitCheck
    \/ Grow
    \/ ReadInto
    \/ ReadResult
    \/ RespondToSemanticError

ReadSpec == Init /\ [][ReadNext]_vars

\* one step of the loop of a running call
LoopStep ==
    \/ ParseOk
    \/ ParseIncomplete
    \/ ParseError
    \/ ReadLimitOverflow
    \/ LimitCheck
    \/ Grow
    \/ ReadInto
    \/ ReadResult

\* the task of a running call keeps running and every issued read completes
FairReadSpec == ReadSpec /\ WF_vars(LoopStep)

\* a connection on which only write_all_list is called; the peer sends nothing
WriteInit ==
    /\ Init
    /\ wire = <<>>
    /\ cap = 0
    /\ ~overflow_checks

WriteNext ==
    \/ write_all_list
    \/ Writev
    \/ WriteResult

WriteSpec == WriteInit /\ [][WriteNext]_vars

TypeOK ==
    /\ pc \in {"idle", "parse", "limit", "grow", "read", "readres", "returned",
               "writev", "writeres", "wreturned"}
    /\ callNo \in 0..MaxCalls
    /\ Len(buf) < UsizeModulus
    /\ cap \in 0..MaxCap
    /\ read_limit \in 0..(UsizeModulus - 1)

\* ------------------------------------------------------------------ claims
Prefix(s, k) == SubSeq(s, 1, k)
Suffix(s, k) == SubSeq(s, k + 1, Len(s))

\* the bytes delivered to the running call: the leftover bytes in the buffer
\* at entry followed by the bytes its reads returned
delivered == Prefix(total, Len(total) - Len(wire))

\* g accepts the first k bytes of B as one message and reports
\* need-more-data on every shorter prefix
AcceptsAt(g, B, k) ==
    /\ Parser(g, Prefix(B, k)).tag = "Ok"
    /\ Parser(g, Prefix(B, k)).rest = <<>>
    /\ \A j \in 0..(k - 1) : Parser(g, Prefix(B, j)).tag = "Incomplete"

\* C1: no byte loss or duplication. When the bytes delivered to a call
\* (leftover bytes followed by the bytes read) start with a message P that the
\* grammar accepts, the call returns the value parsed from P and a buffer
\* whose filled region is exactly the delivered bytes after P; with the bytes
\* still on the wire that is everything after P, whatever the chunking was.
C1_NoByteLoss ==
    ret.tag # "Pending" =>
        /\ \A k \in 0..Len(delivered) :
              AcceptsAt(parser, delivered, k) =>
                 /\ ret.tag = "Some"
                 /\ ret.output = Parser(parser, Prefix(delivered, k)).output
                 /\ ret.buf = Suffix(delivered, k)
                 /\ ret.buf \o wire = Suffix(total, k)
        /\ ret.tag = "Some" =>
              \E k \in 0..Len(delivered) : AcceptsAt(parser, delivered, k)

C1_Witness ==
    /\ ret.tag = "Some"
    /\ nRead >= 2
    /\ ret.buf # <<>>

BufferLimit == Err("BufferLimitReachedWhileParsing", "none")

\* the last read of the running call returned Ok(0)
ZeroRead == res.set /\ res.ok /\ res.n = 0

\* the last read of the running call returned a transport error
FailedRead == res.set /\ ~res.ok

\* C2: backpressure bound. With a grammar that always reports need-more-data
\* and max_len = L, the buffer-limit error is never raised while fewer than L
\* bytes have been fed, and feeding bytes never ends the call below L (only
\* end of stream or a transport error does); once L bytes have been fed the
\* call ends with the buffer-limit error and never reaches another read.
C2_BackpressureBound ==
    (parser = "never" /\ len0 <= max_len) =>
        /\ ret = BufferLimit => Len(buf) >= max_len
        /\ (Len(buf) < max_len /\ ret.tag # "Pending") => (ZeroRead \/ FailedRead)
        /\ Len(buf) >= max_len =>
              /\ pc \in {"idle", "parse", "limit", "readres", "returned"}
              /\ pc = "returned" => ret = BufferLimit
              /\ pc = "readres" => (res.ok /\ res.n > 0)

C2_Witness ==
    /\ parser = "never"
    /\ ret = BufferLimit
    /\ max_len >= 2
    /\ nRead >= 2
    /\ len0 = 0

\* C3: memory cap. In a call entered with filled length <= max_len every read
\* is issued with limit = max_len - (filled length at that moment), and the
\* filled length never exceeds max_len.
C3_MemoryCap ==
    len0 <= max_len =>
        /\ Len(buf) <= max_len
        /\ pc \in {"grow", "read"} => read_limit = max_len - Len(buf)
        /\ (pc = "readres" /\ res.ok) =>
              /\ read_limit = max_len - (Len(buf) - res.n)
              /\ res.n <= read_limit

C3_Witness ==
    /\ pc = "readres"
    /\ res.ok
    /\ res.n = read_limit
    /\ Len(buf) = max_len
    /\ Len(wire) > 0
    /\ cap > 0
    /\ nRead >= 2

\* C4: clean EOF versus truncation. A read that returns zero bytes ends the
\* call at once: Ok(None) exactly when the buffer is empty, the
\* unexpected-EOF error exactly when it is not; no parse or read follows
\* (every read of the call was preceded by one parse, and none came after).
C4_ZeroRead ==
    ZeroRead =>
        /\ pc \in {"readres", "returned"}
        /\ nParse = nRead
        /\ pc = "returned" =>
              /\ (ret.tag = "None") <=> (buf = <<>>)
              /\ (ret = Err("UnexpectedEof", "none")) <=> (buf # <<>>)

C4_Witness ==
    /\ ZeroRead
    /\ pc = "returned"
    /\ ret = Err("UnexpectedEof", "none")
    /\ nRead >= 2
    /\ Len(buf) < max_len

\* the filled region the running call was entered with
StartBuf == Prefix(total, len0)

\* C5: pipelining. A call entered with a buffer on which the grammar succeeds
\* returns the parsed message and the buffer trimmed to the remainder after
\* one parse and no read; in general the iteration whose parse succeeds
\* issues no read (parses = reads + 1 at a parsed return).
C5_Pipelining ==
    /\ (ret.tag # "Pending" /\ Parser(parser, StartBuf).tag = "Ok") =>
          /\ ret.tag = "Some"
          /\ nRead = 0
          /\ nParse = 1
          /\ ret.output = Parser(parser, StartBuf).output
          /\ ret.buf = Parser(parser, StartBuf).rest
    /\ ret.tag = "Some" => nParse = nRead + 1

\* second call: message 2 was left in the buffer by the first call
C5_Witness ==
    /\ callNo = 2
    /\ len0 > 0
    /\ ret.tag = "Some"
    /\ nRead = 0
    /\ ret.output = StartBuf

\* C6: limit check at or above the maximum. Whenever the grammar reported
\* need-more-data on a filled region of max_len bytes or more, the call
\* fails with the buffer-limit error and issues no grow and no read.
C6_LimitAtOrAbove ==
    (Parser(parser, buf).tag = "Incomplete" /\ Len(buf) >= max_len) =>
        /\ pc \notin {"grow", "read"}
        /\ (pc = "returned" /\ ret.tag # "Some") => ret = BufferLimit

\* C7: malformed input. A parse that reports an error other than
\* need-more-data ends the call in that iteration with the parsing error:
\* the call never reaches the limit check, grow or read with that input, and
\* the failing parse is the last one (parses = reads + 1).
C7_Malformed ==
    Parser(parser, buf).tag = "Error" =>
        /\ pc \notin {"limit", "grow", "read"}
        /\ (pc = "returned" /\ ret.tag # "Some") =>
              /\ ret = Err("ParsingError", "none")
              /\ nParse = nRead + 1

C7_Witness ==
    /\ pc = "returned"
    /\ ret = Err("ParsingError", "none")
    /\ parser = "line"
    /\ nRead >= 1
    /\ Len(buf) < max_len

\* the last writev returned a transport error
FailedWrite == wres.set /\ ~wres.ok

\* C8: transport errors are never retried. A failed read ends read_and_parse
\* with an error carrying that transport error, with no parse or read after
\* it; a failed writev ends write_all_list the same way after its single
\* write; a read is only ever reached after a parse that reported
\* need-more-data.
C8_NoRetry ==
    /\ FailedRead =>
          /\ pc \in {"readres", "returned"}
          /\ nParse = nRead
          /\ pc = "returned" => ret = Err("Io", res.err)
    /\ FailedWrite =>
          /\ pc \in {"writeres", "wreturned"}
          /\ nWritev = 1
          /\ pc = "wreturned" =>
                (wret.tag = "Err" /\ wret.err = [kind |-> "Io", cause |-> wres.err])
    /\ pc \in {"limit", "grow", "read"} => Parser(parser, buf).tag = "Incomplete"
    /\ (pc = "readres" /\ res.set) =>
          Parser(parser, Prefix(buf, Len(buf) - res.n)).tag = "Incomplete"

C8_Witness ==
    /\ FailedRead
    /\ pc = "returned"
    /\ ret = Err("Io", "ConnectionReset")
    /\ nRead >= 2
    /\ wire # <<>>

\* C9 as stated: the buffer comes back at every exit of read_and_parse and
\* the fragment list at every exit of write_all_list.
C9_AlwaysReturned ==
    /\ pc = "returned" => ret.hasBuf
    /\ pc = "wreturned" => wret.hasList

\* C9 amended: read_and_parse hands the buffer back exactly when it returns a
\* parsed message, and then it is the trimmed buffer; at end of stream and
\* on every error no buffer comes back. write_all_list hands the list back
\* exactly when the write succeeded in full.
C9_ReturnedOnSuccess ==
    /\ pc = "returned" =>
          /\ ret.hasBuf <=> (ret.tag = "Some")
          /\ ret.tag = "Some" => ret.buf = buf
          /\ ret.tag # "Some" => ret.buf = <<>>
    /\ pc = "wreturned" =>
          /\ wret.hasList <=> (wret.tag = "Ok")
          /\ wret.hasList <=> (wres.ok /\ wres.n >= len)

C9_Witness ==
    /\ pc = "returned"
    /\ ret.tag = "None"
    /\ ~ret.hasBuf
    /\ callNo = 2
    /\ nWrites = 1

\* total length of a fragment list, summed from the last fragment backwards
RECURSIVE SumTo(_, _)
SumTo(l, k) == IF k = 0 THEN 0 ELSE SumTo(l, k - 1) + l[k]

\* C10: vectored write accounting. len and num_chunks are the total length
\* and the fragment count of the list as passed in, zero-length fragments
\* counted; after a full write the list returned is empty, with count 0.
C10_WriteAccounting ==
    /\ pc \in {"writev", "writeres", "wreturned"} =>
          /\ len = SumTo(list, Len(list))
          /\ num_chunks = Cardinality(DOMAIN list)
    /\ (pc = "wreturned" /\ wres.ok /\ wres.n >= len) =>
          /\ wret.tag = "Ok"
          /\ wret.hasList
          /\ wret.list = <<>>
          /\ num_pieces(wret.list) = 0

C10_Witness ==
    /\ pc = "wreturned"
    /\ list = <<10, 0, 5>>
    /\ len = 15
    /\ num_chunks = 3
    /\ wres.n = 15
    /\ wret.tag = "Ok"
    /\ wret.list = <<>>

\* the writev of the running call reported fewer bytes than len
ShortWrite == wres.set /\ wres.ok /\ wres.n < len

\* C11: short write. A call of write_all_list issues exactly one writev; when
\* it reports fewer bytes than the total taken before the write, the call
\* stops with the unimplemented!() panic: no second writev, the list is not
\* cleared and no list is returned.
C11_ShortWrite ==
    /\ pc \in {"writeres", "wreturned"} => nWritev = 1
    /\ pc = "writev" => nWritev = 0
    /\ ShortWrite =>
          /\ pc \in {"writeres", "wreturned"}
          /\ len = SumTo(list, Len(list))
          /\ pc = "wreturned" =>
                /\ wret.tag = "Panic"
                /\ wret.err = [kind |-> "Panic", cause |-> "not implemented"]
                /\ ~wret.hasList
                /\ list # <<>>

C11_Witness ==
    /\ pc = "wreturned"
    /\ ShortWrite
    /\ wret.tag = "Panic"
    /\ wres.n > 0
    /\ Len(list) = 3
    /\ nWritev = 1

\* the bytes of "HTTP/1.1", "431" and "Request Header Fields Too Large"
HttpVersion == <<72, 84, 84, 80, 47, 49, 46, 49>>
Status431 == <<52, 51, 49>>
ReasonPhrase == <<82, 101, 113, 117, 101, 115, 116, 32, 72, 101, 97, 100, 101, 114, 32,
                  70, 105, 101, 108, 100, 115, 32, 84, 111, 111, 32, 76, 97, 114, 103, 101>>
SP == <<32>>
CRLF == <<13, 10>>

\* C12: error-to-response mapping. The reply looked up for the buffer-limit
\* error is the status line "HTTP/1.1 431 Request Header Fields Too Large",
\* CR LF, and the blank line CR LF, with nothing after it; it is only ever
\* looked up for the buffer-limit kind, the one kind of SemanticError.
C12_ErrorResponse ==
    /\ response # <<>> =>
          /\ ret = BufferLimit
          /\ response = HttpVersion \o SP \o Status431 \o SP \o ReasonPhrase \o CRLF \o CRLF
          /\ Suffix(response, Len(response) - 4) = CRLF \o CRLF
          /\ \A i \in 1..(Len(response) - 4) : response[i] \notin {13, 10}
    /\ \A k \in SemanticError : k = BufferLimit.err.kind

C12_Witness ==
    /\ response # <<>>
    /\ ret = BufferLimit
    /\ nRead >= 1

\* a call of read_and_parse is running
InCall == pc \in {"parse", "limit", "grow", "read", "readres"}

\* C13: termination. Every running call returns, and returns once. A call
\* entered with filled length <= max_len issues at most max_len - (filled
\* length at entry) reads, one parse per read plus one, and ends as parsed,
\* end-of-stream or error, also with a grammar that never completes.
C13_Termination ==
    /\ [](len0 <= max_len =>
            /\ nRead <= max_len - len0
            /\ nParse <= nRead + 1
            /\ nGrow <= nRead + 1
            /\ pc = "returned" => ret.tag \in {"Some", "None", "Err"})
    /\ []((pc = "returned") <=> (ret.tag # "Pending"))
    /\ [][ret.tag # "Pending" => (ret' = ret \/ ret' = Pending)]_vars
    /\ (InCall ~> pc = "returned")

C13_Witness ==
    /\ pc = "returned"
    /\ parser = "never"
    /\ ret = BufferLimit
    /\ nRead >= 3
    /\ nRead = max_len - len0

\* C14: no false end-of-stream. Every read is issued with read_limit >= 1
\* and free capacity >= 1 (grow() yielding non-zero capacity), so a read that
\* returns zero bytes is one for which the peer had nothing left to deliver,
\* and a read issued while the peer has bytes returns at least one.
C14_NoFalseEof ==
    /\ pc = "read" => (read_limit >= 1 /\ cap >= 1)
    /\ ZeroRead => wire = <<>>
    /\ (pc = "readres" /\ res.ok /\ wire # <<>>) => res.n >= 1

C14_Witness ==
    /\ pc = "read"
    /\ read_limit = 1
    /\ nGrow >= 1
    /\ nRead >= 1
    /\ wire # <<>>

\* C15: growth ordering. grow() runs only in an iteration in which the
\* grammar reported need-more-data, the limit check passed and the free
\* capacity is zero; the step after it is the read of the same iteration;
\* no step that ends the call grows, and outside the read step every grow
\* of the call has had its read.
GrowOrdered ==
    /\ (nGrow' # nGrow /\ callNo' = callNo) =>
          /\ pc = "grow"
          /\ nGrow' = nGrow + 1
          /\ Parser(parser, buf).tag = "Incomplete"
          /\ Len(buf) < max_len
          /\ cap = 0
          /\ pc' = "read"
    /\ pc = "grow" => (pc' = "read")
    /\ pc = "read" => (pc' = "readres" /\ nRead' = nRead + 1)
    /\ (pc' = "returned" /\ pc # "returned") => (nGrow' = nGrow)

C15_GrowthOrdering ==
    /\ [][GrowOrdered]_vars
    /\ [](pc # "read" => nGrow <= nRead)

C15_Witness ==
    /\ pc = "read"
    /\ nGrow = 2
    /\ nRead = 1
    /\ cap >= 1

\* C16: the buffer limit applies only to incomplete parses. The limit check
\* is reached, and the buffer-limit error raised, only on a filled region the
\* grammar reported need-more-data on; a call whose delivered bytes hold a
\* complete message returns it, whatever max_len is.
C16_LimitOnlyIncomplete ==
    /\ pc = "limit" => Parser(parser, buf).tag = "Incomplete"
    /\ ret = BufferLimit =>
          /\ Parser(parser, buf).tag = "Incomplete"
          /\ Len(buf) >= max_len
          /\ nParse = nRead + 1
    /\ (pc = "returned" /\ Parser(parser, delivered).tag = "Ok") =>
          /\ ret.tag = "Some"
          /\ ret.output = Parser(parser, delivered).output

\* a message of exactly max_len bytes, fully read
C16_Witness ==
    /\ pc = "returned"
    /\ ret.tag = "Some"
    /\ Len(ret.output) = max_len
    /\ Len(delivered) = max_len
    /\ max_len >= 2
    /\ nRead >= 1

\* the running call was entered with an empty buffer on a stream at its end,
\* with a grammar that reports need-more-data on empty input, and no read
\* of it failed
EnteredAtEof ==
    /\ callNo >= 1
    /\ len0 = 0
    /\ total = <<>>
    /\ Parser(parser, <<>>).tag = "Incomplete"
    /\ ~FailedRead

\* C17 as stated: such a call returns None for every max_len, 0 included.
C17_CleanEofAnyMaxLen ==
    (pc = "returned" /\ EnteredAtEof) => ret.tag = "None"

\* C17 amended: such a call returns None after one read for every
\* max_len >= 1; with max_len = 0 it returns the buffer-limit error and
\* issues no read.
C17_CleanEof ==
    (pc = "returned" /\ EnteredAtEof) =>
        /\ max_len >= 1 => (ret.tag = "None" /\ nRead = 1 /\ ZeroRead)
        /\ max_len = 0 => (ret = BufferLimit /\ nRead = 0)

C17_Witness ==
    /\ pc = "returned"
    /\ EnteredAtEof
    /\ max_len = 1
    /\ ret.tag = "None"
    /\ nGrow = 1
====
